---------------------------- MODULE Spec2Model ----------------------------
(***************************************************************************)
(* A model of bilibili_api/channel.py: the endpoint registry the module    *)
(* loads once, the Channel entity and its calls, the category pagination   *)
(* loop and the extraction of window.__INITIAL_STATE__ from a page.        *)
(*                                                                         *)
(* Text (a URL, a page body) is a sequence of pieces; concatenation of     *)
(* text is concatenation of sequences.                                     *)
(***************************************************************************)
EXTENDS Integers, Sequences, FiniteSets, TLC

VARIABLES
    API,       \* the module-level registry: template key -> [url]
    channels,  \* the Channel objects: reference -> [channel_id]
    tasks,     \* the coroutines of the simple calls, one per slot
    started,   \* the number of calls started so far
    calls,     \* per operation, the number of invocations
    net,       \* per endpoint key, the number of requests handed to request()
    cat        \* the coroutine of get_channels_in_category

vars == <<API, channels, tasks, started, calls, net, cat>>

-----------------------------------------------------------------------------
(* Bounds of the model *)

MaxCalls == 2

MaxPages == 2

MaxPageLen == 2

MaxStrLen == 2

MaxRest == 2

Tasks == {"t1", "t2"}

ChannelRefs == {"chA", "chB"}

ConstructedId(ch) == IF ch = "chA" THEN 123 ELSE 456

Credentials == {"credA", "credB"}

Offsets == {"", "o1"}

PageSizes == {30, 10}

-----------------------------------------------------------------------------
(* The endpoint registry *)

ApiKeys ==
    {"categories.list", "categories.sub_channels", "channel.list_filter",
     "channel.list_multiple", "channel.subscribe", "self_subscribes.list"}

\* The URL text of template k as the registry file gives it: one piece.
BaseUrl(k) == <<k>>

ApiInit == [k \in ApiKeys |-> [url |-> BaseUrl(k)]]

-----------------------------------------------------------------------------
(* The enumerations *)

None == "None"

ChannelVideosOrder == {"NEW", "HOT", "VIEW"}

ChannelVideosFilter ==
    {"ALL", "YEAR_2023", "YEAR_2022", "YEAR_2021", "YEAR_2020", "YEAR_2019",
     "YEAR_2018", "YEAR_2017", "YEAR_2016", "YEAR_2015", "YEAR_2014",
     "YEAR_2013", "YEAR_2012", "YEAR_2011"}

Enum == ChannelVideosOrder \cup ChannelVideosFilter

value(e) ==
    CASE e = "NEW"       -> "?sort_type=new"
      [] e = "HOT"       -> "?sort_type=hot"
      [] e = "VIEW"      -> "?sort_type=view"
      [] e = "ALL"       -> "?filter_type="
      [] e = "YEAR_2023" -> "?filter_type=2023"
      [] e = "YEAR_2022" -> "?filter_type=2022"
      [] e = "YEAR_2021" -> "?filter_type=2021"
      [] e = "YEAR_2020" -> "?filter_type=2020"
      [] e = "YEAR_2019" -> "?filter_type=2019"
      [] e = "YEAR_2018" -> "?filter_type=2018"
      [] e = "YEAR_2017" -> "?filter_type=2017"
      [] e = "YEAR_2016" -> "?filter_type=2016"
      [] e = "YEAR_2015" -> "?filter_type=2015"
      [] e = "YEAR_2014" -> "?filter_type=2014"
      [] e = "YEAR_2013" -> "?filter_type=2013"
      [] e = "YEAR_2012" -> "?filter_type=2012"
      [] e = "YEAR_2011" -> "?filter_type=2011"

\* What get_list may be given: an order, a filter, or nothing.
OrderOrFilter == Enum \cup {None}

-----------------------------------------------------------------------------
(* Credentials and requests *)

\* Credential(): the anonymous credential.
Credential == "anonymous"

NoFields == [x \in {} |-> x]

Idle == [pc |-> "idle"]

\* The call in slot t is suspended: at request(), get_real_url() or session.get().
Busy(t) == tasks[t].pc \in {"awaiting", "resolving", "fetching"}

\* request(method, url, params=, data=, credential=) as the executor gets it.
Request(method, key, url, params, data, credential) ==
    [method |-> method, key |-> key, url |-> url, params |-> params,
     data |-> data, credential |-> credential]

-----------------------------------------------------------------------------
(* Channel.get_list *)

\* The selection without its isinstance(order_or_filter, ChannelVideosOrder).
SelectApiAlwaysFilter(order_or_filter) == "channel.list_filter"

\* api = API["channel"]["list_filter"], or list_multiple for an order.
SelectApi(order_or_filter) ==
    IF order_or_filter \in ChannelVideosOrder
        THEN "channel.list_multiple"
        ELSE "channel.list_filter"

\* api["url"] += order_or_filter.value: api is the registry's own record.
AppendFragment(registry, key, order_or_filter) ==
    IF order_or_filter \in Enum
        THEN [registry EXCEPT ![key].url = @ \o <<value(order_or_filter)>>]
        ELSE registry

GetListParams(ch, offset, page_size) ==
    [channel_id |-> channels[ch].channel_id, offset |-> offset,
     page_size |-> page_size]

\* Lines 168-179: everything up to the suspension at request().
GetListStart(t, ch, order_or_filter, offset, page_size) ==
    /\ ~Busy(t)
    /\ started < MaxCalls
    /\ LET key == SelectApi(order_or_filter)
           registry == AppendFragment(API, key, order_or_filter)
       IN  /\ API' = registry
           /\ tasks' = [tasks EXCEPT ![t] =
                  [pc |-> "awaiting", op |-> "get_list", ch |-> ch,
                   arg |-> order_or_filter, offset |-> offset,
                   page_size |-> page_size, before |-> API, nreq |-> 1,
                   req |-> Request("GET", key, registry[key].url,
                                   GetListParams(ch, offset, page_size),
                                   NoFields, None)]]
           /\ net' = [net EXCEPT ![key] = @ + 1]
    /\ started' = started + 1
    /\ calls' = [calls EXCEPT !["get_list"] = @ + 1]
    /\ UNCHANGED <<channels, cat>>

-----------------------------------------------------------------------------
(* subscribe_channel, get_self_subscribe_channels, get_channel_categories,  *)
(* get_channel_category_detail: one request each                            *)

\* The body under the key get_list uses for the identifier.
SubscribeDataWrongKey(ch) == [channel_id |-> channels[ch].channel_id]

\* params = {"id": channel.get_channel_id()}
SubscribeData(ch) == [id |-> channels[ch].channel_id]

SubscribeStart(t, ch, credential) ==
    /\ ~Busy(t)
    /\ started < MaxCalls
    /\ tasks' = [tasks EXCEPT ![t] =
           [pc |-> "awaiting", op |-> "subscribe_channel", ch |-> ch,
            arg |-> credential, before |-> API, nreq |-> 1,
            req |-> Request("POST", "channel.subscribe",
                            API["channel.subscribe"].url, NoFields,
                            SubscribeData(ch), credential)]]
    /\ net' = [net EXCEPT !["channel.subscribe"] = @ + 1]
    /\ started' = started + 1
    /\ calls' = [calls EXCEPT !["subscribe_channel"] = @ + 1]
    /\ UNCHANGED <<API, channels, cat>>

SelfSubscribeStart(t, credential) ==
    /\ ~Busy(t)
    /\ started < MaxCalls
    /\ tasks' = [tasks EXCEPT ![t] =
           [pc |-> "awaiting", op |-> "get_self_subscribe_channels",
            ch |-> None, arg |-> credential, before |-> API, nreq |-> 1,
            req |-> Request("GET", "self_subscribes.list",
                            API["self_subscribes.list"].url, NoFields,
                            NoFields, credential)]]
    /\ net' = [net EXCEPT !["self_subscribes.list"] = @ + 1]
    /\ started' = started + 1
    /\ calls' = [calls EXCEPT !["get_self_subscribe_channels"] = @ + 1]
    /\ UNCHANGED <<API, channels, cat>>

\* The request of a simple call answers: the call returns the decoded JSON.
Return(t) ==
    /\ tasks[t].pc = "awaiting"
    /\ tasks' = [tasks EXCEPT ![t].pc = "returned"]
    /\ UNCHANGED <<API, channels, started, calls, net, cat>>

\* The request of a simple call fails: the exception leaves the call.
Raise(t) ==
    /\ tasks[t].pc = "awaiting"
    /\ tasks' = [tasks EXCEPT ![t].pc = "raised"]
    /\ UNCHANGED <<API, channels, started, calls, net, cat>>

-----------------------------------------------------------------------------
(* get_channel_categories, get_channel_category_detail *)

CategoriesStart(t) ==
    /\ ~Busy(t)
    /\ started < MaxCalls
    /\ tasks' = [tasks EXCEPT ![t] =
           [pc |-> "awaiting", op |-> "get_channel_categories", ch |-> None,
            arg |-> None, before |-> API, nreq |-> 1,
            req |-> Request("GET", "categories.list",
                            API["categories.list"].url, NoFields, NoFields,
                            None)]]
    /\ net' = [net EXCEPT !["categories.list"] = @ + 1]
    /\ started' = started + 1
    /\ calls' = [calls EXCEPT !["get_channel_categories"] = @ + 1]
    /\ UNCHANGED <<API, channels, cat>>

\* credential = credential if credential else Credential()
OrAnonymous(credential) == IF credential = None THEN Credential ELSE credential

CategoryDetailRequest(category_id, offset, credential) ==
    Request("GET", "categories.sub_channels",
            API["categories.sub_channels"].url,
            [id |-> category_id, offset |-> offset], NoFields,
            OrAnonymous(credential))

CategoryDetailStart(t, category_id, offset, credential) ==
    /\ ~Busy(t)
    /\ started < MaxCalls
    /\ tasks' = [tasks EXCEPT ![t] =
           [pc |-> "awaiting", op |-> "get_channel_category_detail",
            ch |-> None, arg |-> credential, before |-> API, nreq |-> 1,
            req |-> CategoryDetailRequest(category_id, offset, credential)]]
    /\ net' = [net EXCEPT !["categories.sub_channels"] = @ + 1]
    /\ started' = started + 1
    /\ calls' = [calls EXCEPT !["get_channel_category_detail"] = @ + 1]
    /\ UNCHANGED <<API, channels, cat>>

-----------------------------------------------------------------------------
(* pick_window_INITIAL_STATE: the pattern and json.loads                     *)
(*                                                                           *)
(* A page body is a sequence of characters, in which the literal texts       *)
(* "window" and "__INITIAL_STATE__=" are one piece each.                     *)

Quote == "\""

NL == "\n"

Min(S) == CHOOSE x \in S : \A y \in S : x <= y

Seqs(S, n) == UNION {[1..k -> S] : k \in 0..n}

\* '.' of the pattern: any character but a line break.
IsDot(c) == c # NL

\* window.__INITIAL_STATE__=\{ matches at i.
PrefixAt(body, i) ==
    /\ i + 3 <= Len(body)
    /\ body[i] = "window"
    /\ IsDot(body[i + 1])
    /\ body[i + 2] = "__INITIAL_STATE__="
    /\ body[i + 3] = "{"

\* Where (.*?)\}; may end after the '{' at i + 3: the positions of a '}' that a
\* ';' follows, with only '.' characters in between.
Ends(body, i) ==
    {j \in (i + 4)..(Len(body) - 1) :
        /\ body[j] = "}"
        /\ body[j + 1] = ";"
        /\ \A k \in (i + 4)..(j - 1) : IsDot(body[k])}

NoMatch == [found |-> FALSE]

\* re.search(pattern, content): the leftmost start, and from it the shortest
\* match (.*? is lazy); group(1) runs from the '{' to the '}'.
Search(body) ==
    LET starts == {i \in 1..Len(body) :
                       PrefixAt(body, i) /\ Ends(body, i) # {}}
    IN  IF starts = {}
            THEN NoMatch
            ELSE LET i == Min(starts)
                 IN  [found |-> TRUE,
                      group |-> SubSeq(body, i + 3, Min(Ends(body, i)))]

Fail == [ok |-> FALSE]

RECURSIVE SkipWs(_)
SkipWs(s) == IF s # <<>> /\ Head(s) = NL THEN SkipWs(Tail(s)) ELSE s

RECURSIVE DigitRun(_)
DigitRun(s) == IF s # <<>> /\ Head(s) = "1" THEN 1 + DigitRun(Tail(s)) ELSE 0

\* A JSON string at the head of s: up to the next quote, no control character.
ScanString(s) ==
    LET closing == {j \in 2..Len(s) : s[j] = Quote}
    IN  IF closing = {}
            THEN Fail
            ELSE LET j == Min(closing)
                     text == SubSeq(s, 2, j - 1)
                 IN  IF \E k \in 1..Len(text) : text[k] = NL
                         THEN Fail
                         ELSE [ok |-> TRUE, val |-> <<"str", text>>,
                               rest |-> SubSeq(s, j + 1, Len(s))]

\* A JSON value at the head of s: a number, a string, or an object of at most
\* one member.
RECURSIVE ParseValue(_)
ParseValue(s) ==
    IF s = <<>> THEN Fail
    ELSE IF Head(s) = "1" THEN
        [ok |-> TRUE, val |-> <<"num", DigitRun(s)>>,
         rest |-> SubSeq(s, DigitRun(s) + 1, Len(s))]
    ELSE IF Head(s) = Quote THEN ScanString(s)
    ELSE IF Head(s) # "{" THEN Fail
    ELSE LET a == SkipWs(Tail(s)) IN
        IF a = <<>> THEN Fail
        ELSE IF Head(a) = "}" THEN
            [ok |-> TRUE, val |-> <<"obj">>, rest |-> Tail(a)]
        ELSE IF Head(a) # Quote THEN Fail
        ELSE LET k == ScanString(a) IN
            IF ~k.ok THEN Fail
            ELSE LET b == SkipWs(k.rest) IN
                IF b = <<>> \/ Head(b) # ":" THEN Fail
                ELSE LET v == ParseValue(SkipWs(Tail(b))) IN
                    IF ~v.ok THEN Fail
                    ELSE LET c == SkipWs(v.rest) IN
                        IF c = <<>> \/ Head(c) # "}" THEN Fail
                        ELSE [ok |-> TRUE,
                              val |-> <<"obj", k.val[2], v.val>>,
                              rest |-> Tail(c)]

\* json.loads(text): one value and nothing but whitespace around it.
JsonLoads(text) ==
    LET v == ParseValue(SkipWs(text))
    IN  IF v.ok /\ SkipWs(v.rest) = <<>>
            THEN [ok |-> TRUE, val |-> v.val]
            ELSE Fail

NotFound == [kind |-> "ApiException", message |-> "not found"]

ParseError == [kind |-> "ApiException", message |-> "parse error"]

ResponseException == [kind |-> "ResponseException", message |-> "fetch"]

Returned(val) == [kind |-> "returned", val |-> val]

\* The two ApiException messages exchanged.
PickOutcomeErrorsSwapped(content) ==
    LET match == Search(content)
    IN  IF ~match.found THEN ParseError
        ELSE IF ~JsonLoads(match.group).ok THEN NotFound
        ELSE Returned(JsonLoads(match.group).val)

\* Lines 32-42: what the call ends with once the page is fetched.
PickOutcome(content) ==
    LET match == Search(content)
    IN  IF ~match.found THEN NotFound
        ELSE IF ~JsonLoads(match.group).ok THEN ParseError
        ELSE Returned(JsonLoads(match.group).val)

\* credential.get_cookies() and session.get(url, ...): the one fetch.
Fetching(op, ch, credential, url, registry) ==
    [pc |-> "fetching", op |-> op, ch |-> ch, arg |-> credential,
     before |-> registry, url |-> url, cookies |-> OrAnonymous(credential),
     fetches |-> 1]

\* The call in record r has ended with outcome.
Ended(r, fetched, content, outcome) ==
    [pc |-> IF outcome.kind = "returned" THEN "returned" ELSE "raised",
     op |-> r.op, ch |-> r.ch, arg |-> r.arg, before |-> r.before,
     url |-> r.url, cookies |-> r.cookies, fetches |-> r.fetches,
     fetched |-> fetched, content |-> content, outcome |-> outcome]

PickStart(t, url, credential) ==
    /\ ~Busy(t)
    /\ started < MaxCalls
    /\ tasks' = [tasks EXCEPT ![t] =
           Fetching("pick_window_INITIAL_STATE", None, credential, url, API)]
    /\ started' = started + 1
    /\ calls' = [calls EXCEPT !["pick_window_INITIAL_STATE"] = @ + 1]
    /\ UNCHANGED <<API, channels, net, cat>>

\* obj[key] on a parsed value.
Lookup(obj, key) ==
    IF obj[1] # "obj" THEN [kind |-> "TypeError", message |-> key]
    ELSE IF Len(obj) = 3 /\ obj[2] = <<key>> THEN Returned(obj[3])
    ELSE [kind |-> "KeyError", message |-> key]

\* (await self.get_info())["channelDetailBanner"]["data"]["tag_channels"]
TagChannels(state) ==
    LET banner == Lookup(state, "channelDetailBanner")
    IN  IF banner.kind # "returned" THEN banner
        ELSE LET data == Lookup(banner.val, "data")
             IN  IF data.kind # "returned" THEN data
                 ELSE Lookup(data.val, "tag_channels")

CallOutcome(op, content) ==
    LET picked == PickOutcome(content)
    IN  IF op = "get_related_channels" /\ picked.kind = "returned"
            THEN TagChannels(picked.val)
            ELSE picked

\* session.get answers with a page.
FetchOk(t, content) ==
    /\ tasks[t].pc = "fetching"
    /\ tasks' = [tasks EXCEPT ![t] =
           Ended(@, TRUE, content, CallOutcome(@.op, content))]
    /\ UNCHANGED <<API, channels, started, calls, net, cat>>

\* session.get throws: except Exception as e: raise ResponseException(str(e))
FetchRaise(t) ==
    /\ tasks[t].pc = "fetching"
    /\ tasks' = [tasks EXCEPT ![t] = Ended(@, FALSE, <<>>, ResponseException)]
    /\ UNCHANGED <<API, channels, started, calls, net, cat>>

-----------------------------------------------------------------------------
(* Channel.get_info, Channel.get_related_channels *)

ChannelPage(channel_id) == <<"https://www.bilibili.com/v/channel/", channel_id>>

\* What get_real_url may answer: the URL itself or the one it redirects to.
RealUrls(url) == {url, <<"https://www.bilibili.com/redirected/", url[2]>>}

GetInfoStart(t, ch, op) ==
    /\ ~Busy(t)
    /\ started < MaxCalls
    /\ tasks' = [tasks EXCEPT ![t] =
           [pc |-> "resolving", op |-> op, ch |-> ch, arg |-> None,
            before |-> API, url |-> ChannelPage(channels[ch].channel_id)]]
    /\ started' = started + 1
    /\ calls' = [calls EXCEPT ![op] = @ + 1]
    /\ UNCHANGED <<API, channels, net, cat>>

ResolveOk(t, real_url) ==
    /\ tasks[t].pc = "resolving"
    /\ real_url \in RealUrls(tasks[t].url)
    /\ tasks' = [tasks EXCEPT ![t] =
           Fetching(@.op, @.ch, None, real_url, @.before)]
    /\ UNCHANGED <<API, channels, started, calls, net, cat>>

ResolveRaise(t) ==
    /\ tasks[t].pc = "resolving"
    /\ tasks' = [tasks EXCEPT ![t] =
           [pc |-> "raised", op |-> @.op, ch |-> @.ch, arg |-> @.arg,
            before |-> @.before, url |-> @.url,
            outcome |-> [kind |-> "ResolveError", message |-> "resolve"]]]
    /\ UNCHANGED <<API, channels, started, calls, net, cat>>

-----------------------------------------------------------------------------
(* get_channels_in_category *)

\* The test of has_more without its "not".
LoopExitsOnHasMore(raw_data) == raw_data.has_more

\* if not raw_data["has_more"]: break
LoopExits(raw_data) == ~raw_data.has_more

\* "=" in the place of "+=".
AccumulateReplacing(channel_list, raw_data) == raw_data.archive_channels

\* channel_list += raw_data["archive_channels"]
Accumulate(channel_list, raw_data) ==
    channel_list \o raw_data.archive_channels

\* The loop without its "else: offset = ...".
NextOffsetKept(offset, raw_data) == offset

\* offset = raw_data["offset"]
NextOffset(offset, raw_data) == raw_data.offset

\* Channel(channel["id"]) for channel in channel_list
ChannelObjects(channel_list) ==
    [i \in 1..Len(channel_list) |-> [channel_id |-> channel_list[i].id]]

\* Lines 194-197: the first pass up to the suspension at request().
CatStart(category_id) ==
    /\ cat.pc = "idle"
    /\ cat' = [pc |-> "awaiting", category_id |-> category_id,
               channel_list |-> <<>>, offset |-> "0",
               requests |-> <<CategoryDetailRequest(category_id, "0", None)>>,
               pages |-> <<>>, result |-> <<>>]
    /\ UNCHANGED <<API, channels, tasks, started, calls, net>>

\* The service answers the pending request with a page.
CatRespond(page) ==
    /\ cat.pc = "awaiting"
    /\ Len(cat.pages) < MaxPages
    /\ cat' = [cat EXCEPT !.pc = "ready", !.pages = Append(@, page)]
    /\ UNCHANGED <<API, channels, tasks, started, calls, net>>

\* The pending request fails: the exception leaves the loop and the call.
CatFail ==
    /\ cat.pc = "awaiting"
    /\ cat' = [cat EXCEPT !.pc = "raised"]
    /\ UNCHANGED <<API, channels, tasks, started, calls, net>>

\* Lines 198-208: the loop body after the await, to the next request or the
\* return.
CatResume ==
    /\ cat.pc = "ready"
    /\ LET raw_data == cat.pages[Len(cat.pages)]
           channel_list == Accumulate(cat.channel_list, raw_data)
           offset == NextOffset(cat.offset, raw_data)
       IN  IF LoopExits(raw_data)
               THEN cat' = [cat EXCEPT !.pc = "returned",
                                       !.channel_list = channel_list,
                                       !.result = ChannelObjects(channel_list)]
               ELSE cat' = [cat EXCEPT !.pc = "awaiting",
                                       !.channel_list = channel_list,
                                       !.offset = offset,
                                       !.requests = Append(@,
                                           CategoryDetailRequest(
                                               cat.category_id, offset, None))]
    /\ UNCHANGED <<API, channels, tasks, started, calls, net>>

-----------------------------------------------------------------------------
(* What the callers and the service may supply *)

CategoryIds == {7, 8}

Cursors == {"0", "x"}

ChannelRecords == {[id |-> 1], [id |-> 2]}

Pages ==
    [archive_channels : Seqs(ChannelRecords, MaxPageLen), has_more : BOOLEAN,
     offset : Cursors]

Assignment == <<"window", ".", "__INITIAL_STATE__=">>

StringChars == {"a", "}", ";"}

JsonStrings ==
    {<<Quote>> \o c \o <<Quote>> : c \in Seqs(StringChars, MaxStrLen)}

JsonValues == JsonStrings \cup {<<"1">>, <<"{", "}">>}

\* The texts of JSON objects: compact, or with a line break after the brace.
JsonObjects ==
    {<<"{", "}">>} \cup
    {<<"{">> \o w \o <<Quote, "a", Quote, ":">> \o v \o <<"}">> :
        w \in {<<>>, <<NL>>}, v \in JsonValues}

Malformed == {<<"{", "a", "}">>, <<"{", Quote, "a", Quote, ":", "}">>, <<"1">>}

Rests == Seqs({"a", "}", ";"}, MaxRest)

\* Page bodies: the assignment of a payload, its ';' and the rest of the page;
\* or something, an assignment or what looks like one, a payload and a
\* terminator or none.
Bodies ==
    {Assignment \o j \o <<";">> \o r :
        j \in JsonObjects \cup Malformed, r \in Rests}
    \cup
    {p \o m \o j \o s :
        p \in {<<>>, Assignment \o <<"1", ";">>},
        m \in {Assignment, <<"window", "a", "__INITIAL_STATE__=">>,
               <<"__INITIAL_STATE__=">>},
        j \in JsonObjects \cup Malformed,
        s \in {<<";">>, <<>>}}

Obj(key, v) == <<"{", Quote, key, Quote, ":">> \o v \o <<"}">>

\* The pages a channel URL may show.
ChannelPages ==
    {Assignment
        \o Obj("channelDetailBanner", Obj("data", Obj("tag_channels", <<"1">>)))
        \o <<";">>,
     Assignment \o Obj("channelDetailBanner", <<"1">>) \o <<";">>,
     Assignment \o Obj("a", <<"1">>) \o <<";">>,
     <<"a">>}

Urls == {ChannelPage(123)}

-----------------------------------------------------------------------------
(* Specifications *)

Ops ==
    {"get_list", "subscribe_channel", "get_self_subscribe_channels",
     "get_channel_categories", "get_channel_category_detail",
     "pick_window_INITIAL_STATE", "get_info", "get_related_channels"}

Init ==
    /\ API = ApiInit
    /\ channels = [ch \in ChannelRefs |-> [channel_id |-> ConstructedId(ch)]]
    /\ tasks = [t \in Tasks |-> Idle]
    /\ started = 0
    /\ calls = [o \in Ops |-> 0]
    /\ net = [k \in ApiKeys |-> 0]
    /\ cat = [pc |-> "idle", category_id |-> 0, channel_list |-> <<>>,
              offset |-> "0", requests |-> <<>>, pages |-> <<>>,
              result |-> <<>>]

\* Concurrent get_list calls, one coroutine per slot, offset and page_size
\* left at their defaults.
GetList ==
    \E t \in Tasks, ch \in ChannelRefs, e \in OrderOrFilter :
        GetListStart(t, ch, e, "", 30)

Finish == \E t \in Tasks : Return(t) \/ Raise(t)

NextList == GetList \/ Finish

SpecList == Init /\ [][NextList]_vars

\* A caller that awaits each call before it makes the next.
OpsGetList ==
    \E ch \in ChannelRefs, e \in OrderOrFilter, offset \in Offsets,
       page_size \in PageSizes :
        GetListStart("t1", ch, e, offset, page_size)

OpsSubscribe ==
    \E ch \in ChannelRefs, credential \in Credentials :
        SubscribeStart("t1", ch, credential)

OpsSelfSubscribe ==
    \E credential \in Credentials : SelfSubscribeStart("t1", credential)

OpsCategories == CategoriesStart("t1")

OpsCategoryDetail ==
    \E category_id \in CategoryIds, offset \in Cursors,
       credential \in Credentials \cup {None} :
        CategoryDetailStart("t1", category_id, offset, credential)

OpsGetInfo ==
    \E ch \in ChannelRefs, op \in {"get_info", "get_related_channels"} :
        GetInfoStart("t1", ch, op)

OpsResolve ==
    \/ \E real_url \in RealUrls(ChannelPage(123)) \cup RealUrls(ChannelPage(456)) :
           ResolveOk("t1", real_url)
    \/ ResolveRaise("t1")

OpsFetch ==
    \/ \E content \in ChannelPages : FetchOk("t1", content)
    \/ FetchRaise("t1")

OpsFinish == Return("t1") \/ Raise("t1")

NextOps ==
    \/ OpsGetList
    \/ OpsSubscribe
    \/ OpsSelfSubscribe
    \/ OpsCategories
    \/ OpsCategoryDetail
    \/ OpsGetInfo
    \/ OpsResolve
    \/ OpsFetch
    \/ OpsFinish

SpecOps == Init /\ [][NextOps]_vars

\* pick_window_INITIAL_STATE on the pages of Bodies.
ExtractStart ==
    \E url \in Urls, credential \in {"credA", None} :
        PickStart("t1", url, credential)

ExtractFetch ==
    \/ \E content \in Bodies : FetchOk("t1", content)
    \/ FetchRaise("t1")

NextExtract == ExtractStart \/ ExtractFetch

SpecExtract == Init /\ [][NextExtract]_vars

\* get_channels_in_category against a service that serves the pages of Pages.
NextCat ==
    \/ \E category_id \in CategoryIds : CatStart(category_id)
    \/ \E page \in Pages : CatRespond(page)
    \/ CatFail
    \/ CatResume

SpecCat == Init /\ [][NextCat]_vars

\* The event loop resumes a coroutine whose awaited response has arrived.
FairSpecCat == SpecCat /\ WF_vars(CatResume)

-----------------------------------------------------------------------------
(* Properties *)

\* The slots that hold a get_list call, suspended or ended.
GetListCalls ==
    {t \in Tasks : tasks[t].pc # "idle" /\ tasks[t].op = "get_list"}

\* The query fragment of the value passed, or nothing when it is omitted.
OwnFragment(order_or_filter) ==
    IF order_or_filter = None THEN <<>> ELSE <<value(order_or_filter)>>

OwnUrl(r) == BaseUrl(r.req.key) \o OwnFragment(r.arg)

\* C1: whatever get_list calls came before, the URL a get_list call requests
\* is the base URL of its endpoint template followed by exactly the fragment
\* of the value passed to this call, with no fragment left from an earlier one.
C1_UrlHasOnlyOwnFragment ==
    \A t \in GetListCalls : tasks[t].req.url = OwnUrl(tasks[t])

\* C2: two get_list calls with different values, started on the same Channel
\* and both suspended at their network call, each request their own URL: the
\* base URL of the endpoint followed by only the call's own fragment.
C2_ConcurrentCallsOwnUrl ==
    \A t \in GetListCalls, u \in GetListCalls :
        (/\ t # u
         /\ started = 2
         /\ tasks[t].pc = "awaiting"
         /\ tasks[u].pc = "awaiting"
         /\ tasks[t].ch = tasks[u].ch
         /\ tasks[t].arg # tasks[u].arg)
        => /\ tasks[t].req.url = OwnUrl(tasks[t])
           /\ tasks[u].req.url = OwnUrl(tasks[u])

\* C3: an order value (NEW, HOT, VIEW) selects the multi-order template, a
\* filter value or no value the filtered template; the request is a GET whose
\* URL starts with that template's base URL and whose query parameters are
\* exactly channel_id (the entity's identifier), offset and page_size.
C3_EndpointAndParams ==
    \A t \in GetListCalls :
        LET r == tasks[t]
        IN  /\ r.req.method = "GET"
            /\ r.arg \in {"NEW", "HOT", "VIEW"}
                   => r.req.key = "channel.list_multiple"
            /\ r.arg \notin {"NEW", "HOT", "VIEW"}
                   => r.req.key = "channel.list_filter"
            /\ SubSeq(r.req.url, 1, 1) = <<r.req.key>>
            /\ DOMAIN r.req.params = {"channel_id", "offset", "page_size"}
            /\ r.req.params.channel_id = ConstructedId(r.ch)
            /\ r.req.params.offset = r.offset
            /\ r.req.params.page_size = r.page_size
            /\ DOMAIN r.req.data = {}

\* Both templates have been requested and a call with a filter value has
\* returned.
C3_Witness ==
    /\ net["channel.list_multiple"] >= 1
    /\ net["channel.list_filter"] >= 1
    /\ \E t \in GetListCalls :
           /\ tasks[t].pc = "returned"
           /\ tasks[t].arg \in ChannelVideosFilter
           /\ tasks[t].req.key = "channel.list_filter"

\* C8: a call whose request failed has raised after a single request, with no
\* result, and the endpoint registry is what it was when the call started.
C8_FailureLeavesRegistryUnchanged ==
    /\ \A t \in Tasks :
           tasks[t].pc = "raised"
               => /\ API = tasks[t].before
                  /\ tasks[t].op \in {"get_list", "subscribe_channel",
                                      "get_self_subscribe_channels",
                                      "get_channel_categories",
                                      "get_channel_category_detail"}
                         => tasks[t].nreq = 1
    /\ cat.pc = "raised" => cat.result = <<>>

\* C9: every subscribe_channel call issues one POST to the subscribe endpoint
\* with body {id: n} and the given credential, n being the identifier the
\* Channel was constructed with, whatever ran before; as many POSTs are issued
\* as calls were made; no Channel's identifier changes.
C9_SubscribePosts ==
    /\ \A ch \in ChannelRefs : channels[ch].channel_id = ConstructedId(ch)
    /\ net["channel.subscribe"] = calls["subscribe_channel"]
    /\ \A t \in Tasks :
           (tasks[t].pc # "idle" /\ tasks[t].op = "subscribe_channel")
               => /\ tasks[t].nreq = 1
                  /\ tasks[t].req.method = "POST"
                  /\ tasks[t].req.url = <<"channel.subscribe">>
                  /\ DOMAIN tasks[t].req.data = {"id"}
                  /\ tasks[t].req.data.id = ConstructedId(tasks[t].ch)
                  /\ tasks[t].req.credential = tasks[t].arg
                  /\ DOMAIN tasks[t].req.params = {}

\* A subscribe_channel call has returned after a get_list call with a value
\* ran before it.
C9_Witness ==
    /\ calls["get_list"] >= 1
    /\ API # ApiInit
    /\ \E t \in Tasks :
           /\ tasks[t].pc = "returned"
           /\ tasks[t].op = "subscribe_channel"
           /\ tasks[t].req.data.id = 456

\* The slots that hold an ended pick_window_INITIAL_STATE call.
Picked ==
    {t \in Tasks :
        /\ tasks[t].pc \in {"returned", "raised"}
        /\ tasks[t].op = "pick_window_INITIAL_STATE"}

\* C6: for every page body window.__INITIAL_STATE__=<JSON object>;<rest> the
\* call returns the parsed <JSON object>, whatever <rest> is.
C6_ReturnsAssignedObject ==
    \A t \in Picked :
        tasks[t].fetched =>
            \A j \in JsonObjects, r \in Rests :
                (/\ JsonLoads(j).ok
                 /\ tasks[t].content = Assignment \o j \o <<";">> \o r)
                => /\ tasks[t].outcome.kind = "returned"
                   /\ tasks[t].outcome.val = JsonLoads(j).val

\* C7: a run ends in one of four ways, decided in this order: the transport
\* error when the fetch throws; else "not found" when the pattern matches
\* nowhere; else "parse error" when the captured text is no JSON; else the
\* parsed object. One fetch is made in every case.
C7_FourOutcomesInOrder ==
    /\ \A t \in Tasks :
           tasks[t].pc = "fetching" => tasks[t].fetches = 1
    /\ \A t \in Picked :
           LET r == tasks[t]
               match == Search(r.content)
           IN  /\ r.fetches = 1
               /\ ~r.fetched => r.outcome = ResponseException
               /\ (r.fetched /\ ~match.found) => r.outcome = NotFound
               /\ (r.fetched /\ match.found /\ ~JsonLoads(match.group).ok)
                      => r.outcome = ParseError
               /\ (r.fetched /\ match.found /\ JsonLoads(match.group).ok)
                      => /\ r.outcome.kind = "returned"
                         /\ r.outcome.val = JsonLoads(match.group).val
                         /\ r.outcome.val[1] = "obj"

\* A run ended with "parse error" on a page whose assignment holds no JSON.
C7_Witness ==
    \E t \in Picked :
        /\ tasks[t].fetched
        /\ Search(tasks[t].content).found
        /\ tasks[t].outcome = ParseError

RECURSIVE AllRecords(_)
AllRecords(pages) ==
    IF pages = <<>>
        THEN <<>>
        ELSE Head(pages).archive_channels \o AllRecords(Tail(pages))

RECURSIVE SumOfLengths(_)
SumOfLengths(pages) ==
    IF pages = <<>>
        THEN 0
        ELSE Len(Head(pages).archive_channels) + SumOfLengths(Tail(pages))

\* C4: the returned sequence has as many Channel entities as the pages fetched
\* hold records, and the i-th entity carries the id of the i-th record in page
\* order, then within-page order, the last page's records included.
C4_AllRecordsInOrder ==
    cat.pc = "returned" =>
        /\ Len(cat.result) = SumOfLengths(cat.pages)
        /\ \A i \in 1..Len(cat.result) :
               cat.result[i].channel_id = AllRecords(cat.pages)[i].id

\* The call returned two pages of records, the ids differing within and
\* across the pages.
C4_Witness ==
    /\ cat.pc = "returned"
    /\ Len(cat.pages) = 2
    /\ cat.pages[1].archive_channels = <<[id |-> 2], [id |-> 1]>>
    /\ cat.pages[2].archive_channels = <<[id |-> 1], [id |-> 2]>>

\* A returned call's last page has has_more = false; a page with
\* has_more = false is the last one served and no request follows it.
C5_Safety ==
    /\ cat.pc = "returned"
           => /\ Len(cat.pages) >= 1
              /\ ~cat.pages[Len(cat.pages)].has_more
    /\ \A i \in 1..Len(cat.pages) :
           ~cat.pages[i].has_more
               => /\ i = Len(cat.pages)
                  /\ cat.pc \in {"ready", "returned"}
                  /\ Len(cat.requests) = Len(cat.pages)

\* A page with has_more = false has arrived and the coroutine is to resume.
C5_LastPageArrived ==
    cat.pc = "ready" /\ ~cat.pages[Len(cat.pages)].has_more

\* C5: the call stops at the first page with has_more = false: no request
\* follows that page, and the call returns once it has arrived; it has not
\* returned while every page served had has_more = true.
C5_StopsAtLastPage ==
    /\ []C5_Safety
    /\ C5_LastPageArrived ~> (cat.pc = "returned")

\* The call returned at its second page, the first one having has_more = true.
C5_Witness ==
    /\ cat.pc = "returned"
    /\ Len(cat.pages) = 2
    /\ cat.pages[1].has_more
    /\ Len(cat.requests) = 2

\* C10: the first request carries offset "0"; every later request carries the
\* offset of the page before it as it came; every request is a GET for the
\* same category id with the anonymous credential; one request per page.
C10_CursorProtocol ==
    cat.pc # "idle" =>
        /\ Len(cat.requests) >= 1
        /\ cat.requests[1].params.offset = "0"
        /\ \A i \in 2..Len(cat.requests) :
               cat.requests[i].params.offset = cat.pages[i - 1].offset
        /\ \A i \in 1..Len(cat.requests) :
               /\ cat.requests[i].method = "GET"
               /\ cat.requests[i].url = <<"categories.sub_channels">>
               /\ DOMAIN cat.requests[i].params = {"id", "offset"}
               /\ cat.requests[i].params.id = cat.category_id
               /\ cat.requests[i].credential = "anonymous"
        /\ cat.pc = "awaiting" => Len(cat.requests) = Len(cat.pages) + 1
        /\ cat.pc \in {"ready", "returned"}
               => Len(cat.requests) = Len(cat.pages)

\* The second request carries the cursor "x" the first page gave.
C10_Witness ==
    /\ cat.pc = "awaiting"
    /\ Len(cat.requests) = 2
    /\ cat.pages[1].offset = "x"
    /\ cat.requests[2].params.offset = "x"

=============================================================================
